---- MODULE Spec2Model ----
(***************************************************************************)
(* A model of utf8.py: conversion between UTF-8 encoded bytes and Unicode  *)
(* code points.                                                            *)
(*                                                                         *)
(* Text (Python str) is a sequence of character codes: "A" is <<65>>.      *)
(* A bit string (Python str of '0'/'1', as utf8.py represents bytes) is a  *)
(* sequence over {0, 1}: '01000001' is <<0,1,0,0,0,0,0,1>>.                *)
(***************************************************************************)
EXTENDS Integers, Sequences, FiniteSets, TLC

VARIABLES
  args,           \* the parsed command line: input_type, output_type, input_format, output_format
  inputs,         \* args.inputs: the positional arguments, each a text
  stdin,          \* the lines of standard input, each a text ending in a newline
  pc,             \* where main() is: "main", "read", "chunk", "chars", "done", "exit", "raised"
  exc,            \* the exception that ended the run, or "none"
  output_format,  \* main()'s local output_format ("unbound" before it is assigned)
  consumed,       \* how many items of get_input() have been consumed
  bin_input,      \* input_to_code_points()'s bin_input
  input_bytes,    \* what binary_to_bytes() yields: the sequence handed to chunk_byte_sequence()
  pos,            \* how many elements of input_bytes the chunker has consumed
  bytes_togo,     \* chunk_byte_sequence()'s bytes_togo
  char_bytes,     \* chunk_byte_sequence()'s char_bytes
  warnings,       \* the logging.warn()/logging.critical() calls made, in order
  chunks,         \* the chunks chunk_byte_sequence() has yielded, in order
  code_points,    \* the code points input_to_code_points() has yielded, in order
  encoded,        \* code_points_to_output()'s char_bytes (bytes(char, 'utf8')), one per code point
  output_strs,    \* code_points_to_output()'s output_strs
  output_str,     \* code_points_to_output()'s output_str
  lines,          \* the lines printed, in order
  run,            \* 1 for a first invocation, 2 for one reading the first one's output
  origin          \* in run 2: the code points run 1 was given

vars == <<args, inputs, stdin, pc, exc, output_format, consumed, bin_input, input_bytes,
          pos, bytes_togo, char_bytes, warnings, chunks, code_points, encoded,
          output_strs, output_str, lines, run, origin>>

----------------------------------------------------------------------------
(* Bounds of the model. *)

\* The longest byte stream made of every combination of the sample bytes.
MaxLen == 3

\* How far around each boundary of the UTF-8 length table code points are sampled.
CpWindow == 16

\* The longest hex token given on the command line.
MaxTokenLen == 4

----------------------------------------------------------------------------
(* Python built-ins on text and integers. *)

\* s.startswith(prefix)
StartsWith(s, prefix) ==
  /\ Len(s) >= Len(prefix)
  /\ SubSeq(s, 1, Len(prefix)) = prefix

\* s[n:]
Drop(s, n) == SubSeq(s, n + 1, Len(s))

RECURSIVE Bin(_)
\* bin(n)[2:] for n >= 0
Bin(n) == IF n < 2 THEN <<n>> ELSE Append(Bin(n \div 2), n % 2)

RECURSIVE IntBase2(_)
\* int(bits, 2) for a non-empty bit string; -1 stands for the ValueError int('', 2) raises
IntBase2(bits) ==
  IF Len(bits) = 0 THEN -1
  ELSE IF Len(bits) = 1 THEN bits[1]
  ELSE 2 * IntBase2(SubSeq(bits, 1, Len(bits) - 1)) + bits[Len(bits)]

\* The character of one hexadecimal digit as hex() writes it: 0-9, a-f
HexDigitChar(d) == IF d < 10 THEN 48 + d ELSE 87 + d

RECURSIVE Hex(_)
\* hex(n)[2:] for n >= 0
Hex(n) == IF n < 16 THEN <<HexDigitChar(n)>> ELSE Append(Hex(n \div 16), HexDigitChar(n % 16))

\* s.upper() on ASCII text
Upper(s) == [i \in 1..Len(s) |-> IF s[i] \in 97..122 THEN s[i] - 32 ELSE s[i]]

\* The value of one character of [0-9A-F]
HexDigitValue(c) == IF c \in 48..57 THEN c - 48 ELSE c - 55

RECURSIVE IntBase16(_)
\* int(s, 16) for s over [0-9A-F]; -1 stands for the ValueError int('', 16) raises
IntBase16(s) ==
  IF Len(s) = 0 THEN -1
  ELSE IF Len(s) = 1 THEN HexDigitValue(s[1])
  ELSE 16 * IntBase16(SubSeq(s, 1, Len(s) - 1)) + HexDigitValue(s[Len(s)])

\* The characters str.split() and int() treat as whitespace (ASCII)
Whitespace == {9, 10, 11, 12, 13, 32}

RECURSIVE Strip(_)
\* s.strip()
Strip(s) ==
  IF Len(s) = 0 THEN s
  ELSE IF s[1] \in Whitespace THEN Strip(Tail(s))
  ELSE IF s[Len(s)] \in Whitespace THEN Strip(SubSeq(s, 1, Len(s) - 1))
  ELSE s

RECURSIVE DecimalValue(_)
DecimalValue(s) ==
  IF Len(s) = 1 THEN s[1] - 48
  ELSE 10 * DecimalValue(SubSeq(s, 1, Len(s) - 1)) + (s[Len(s)] - 48)

\* int(s) for an unsigned decimal literal, surrounding whitespace allowed;
\* -1 stands for the ValueError raised for text that is no such literal
IntBase10(s) ==
  LET t == Strip(s)
  IN IF Len(t) > 0 /\ \A i \in 1..Len(t) : t[i] \in 48..57 THEN DecimalValue(t) ELSE -1

RECURSIVE Str(_)
\* str(n) for n >= 0
Str(n) == IF n < 10 THEN <<48 + n>> ELSE Append(Str(n \div 10), 48 + (n % 10))

RECURSIVE Join(_, _)
\* sep.join(strs)
Join(strs, sep) ==
  IF Len(strs) = 0 THEN <<>>
  ELSE IF Len(strs) = 1 THEN strs[1]
  ELSE strs[1] \o sep \o Join(Tail(strs), sep)

RECURSIVE SelectSeqOf(_, _)
\* re.sub(r'[^...]+', '', s): s without the characters outside keep
SelectSeqOf(s, keep) ==
  IF Len(s) = 0 THEN <<>>
  ELSE (IF s[1] \in keep THEN <<s[1]>> ELSE <<>>) \o SelectSeqOf(Tail(s), keep)

----------------------------------------------------------------------------
(* Reading the input. *)

RECURSIVE SplitOn(_, _)
\* in_str.split(','): the fields between separators, empty fields kept
SplitOn(s, sep) ==
  IF \A i \in 1..Len(s) : s[i] # sep THEN <<s>>
  ELSE LET k == CHOOSE i \in 1..Len(s) : s[i] = sep /\ \A j \in 1..(i - 1) : s[j] # sep
       IN <<SubSeq(s, 1, k - 1)>> \o SplitOn(Drop(s, k), sep)

RECURSIVE SplitWhitespace(_)
\* in_str.split(): the maximal runs of non-whitespace characters
SplitWhitespace(s) ==
  IF Len(s) = 0 THEN <<>>
  ELSE IF s[1] \in Whitespace THEN SplitWhitespace(Tail(s))
  ELSE IF \A i \in 1..Len(s) : s[i] \notin Whitespace THEN <<s>>
  ELSE LET k == CHOOSE i \in 1..Len(s) :
                           s[i] \in Whitespace /\ \A j \in 1..(i - 1) : s[j] \notin Whitespace
       IN <<SubSeq(s, 1, k - 1)>> \o SplitWhitespace(Drop(s, k))

comma_or_space_split(in_str) ==
  IF \E i \in 1..Len(in_str) : in_str[i] = 44
  THEN SplitOn(in_str, 44)
  ELSE SplitWhitespace(in_str)

RECURSIVE get_input_chunks(_, _)
get_input_chunks(input_chunks, format) ==
  IF Len(input_chunks) = 0 THEN <<>>
  ELSE (IF format = "str"
        THEN [i \in 1..Len(input_chunks[1]) |-> <<input_chunks[1][i]>>]
        ELSE comma_or_space_split(input_chunks[1]))
       \o get_input_chunks(Tail(input_chunks), format)

\* Everything get_input() yields, in order
get_input(input_args, format) ==
  get_input_chunks(IF Len(input_args) > 0 THEN input_args ELSE stdin, format)

\* [0-9A-F]
HexChars == (48..57) \cup (65..70)

clean_up_hex(hex_input) == SelectSeqOf(Upper(hex_input), HexChars)

pad_binary(binary) ==
  LET bin_len   == Len(binary)
      num_bytes == ((bin_len - 1) \div 8) + 1
      num_bits  == num_bytes * 8
      pad_bits  == num_bits - bin_len
  IN [i \in 1..pad_bits |-> 0] \o binary

\* hex_input is not empty: int('', 16) raises before this is computed
hex_to_binary(hex_input) == pad_binary(Bin(IntBase16(hex_input)))

binary_to_bytes(binary) ==
  [k \in 1..((Len(binary) + 7) \div 8) |->
     SubSeq(binary, 8 * (k - 1) + 1, IF 8 * k < Len(binary) THEN 8 * k ELSE Len(binary))]

\* One pass of input_to_code_points()'s loop over get_input() in bytes mode: the
\* bits one item adds to bin_input, or the ValueError it raises
ItemBits(input_str, input_format) ==
  IF input_format = "hex"
  THEN LET hex_input == clean_up_hex(input_str)
       IN IF Len(hex_input) = 0
          THEN [exc |-> "ValueError", bits |-> <<>>]
          ELSE [exc |-> "none", bits |-> hex_to_binary(hex_input)]
  ELSE IF input_format = "int"
  THEN LET integer == IntBase10(input_str)
       IN IF integer < 0
          THEN [exc |-> "ValueError", bits |-> <<>>]
          ELSE [exc |-> "none", bits |-> Bin(integer)]
  ELSE [exc |-> "none", bits |-> <<>>]

RECURSIVE ReadItems(_, _, _)
\* The loop of lines 64-70 from item k+1 on: the bits gathered, how many items were
\* read, and the exception that stopped the loop
ReadItems(items, input_format, acc) ==
  IF acc.read = Len(items) THEN acc
  ELSE LET r == ItemBits(items[acc.read + 1], input_format)
       IN IF r.exc # "none"
          THEN [acc EXCEPT !.exc = r.exc, !.read = @ + 1]
          ELSE ReadItems(items, input_format,
                         [acc EXCEPT !.bits = @ \o r.bits, !.read = @ + 1])

----------------------------------------------------------------------------
(* The chunker: chunk_byte_sequence(). *)

Warning(kind, bytes) == [kind |-> kind, bytes |-> bytes]

\* The number of leading 1 bits of a bit string
LeadingOnes(byte) ==
  IF \A i \in 1..Len(byte) : byte[i] = 1 THEN Len(byte)
  ELSE (CHOOSE i \in 1..Len(byte) : byte[i] = 0 /\ \A j \in 1..(i - 1) : byte[j] = 1) - 1

\* re.search(r'^(1+)0', byte) finds a match
LeaderMatches(byte) == LeadingOnes(byte) >= 1 /\ LeadingOnes(byte) < Len(byte)

\* What one pass of the loop does: the new bytes_togo and char_bytes, the warnings
\* logged, the chunk yielded (at most one) and the exception raised
Step(togo, cbytes, warn, yield, e) ==
  [bytes_togo |-> togo, char_bytes |-> cbytes, warn |-> warn, yield |-> yield, exc |-> e]

\* byte.startswith('0'). ' '.join(bytes_togo) joins an int: a TypeError, raised
\* while the arguments of logging.warn() are evaluated
OnAscii(togo, cbytes, byte) ==
  LET appended == Append(cbytes, byte)
  IN IF togo > 0
     THEN Step(togo, appended, <<>>, <<>>, "TypeError")
     ELSE Step(togo, <<>>, <<>>, <<appended>>, "none")

\* OnLeader with bytes_togo set to the count of leading 1 bits, not one less
OnLeaderCountsItself(togo, cbytes, byte) ==
  LET appended == Append(cbytes, byte)
      warn     == IF togo > 0
                  THEN <<Warning("too_few_continuation_bytes", appended)>>
                  ELSE <<>>
      kept     == IF togo > 0 THEN <<>> ELSE appended
  IN IF ~LeaderMatches(byte)
     THEN Step(0, kept, warn, <<>>, "AssertionError")
     ELSE Step(LeadingOnes(byte), kept, warn, <<>>, "none")

\* byte.startswith('11')
OnLeader(togo, cbytes, byte) ==
  LET appended == Append(cbytes, byte)
      warn     == IF togo > 0
                  THEN <<Warning("too_few_continuation_bytes", appended)>>
                  ELSE <<>>
      kept     == IF togo > 0 THEN <<>> ELSE appended
  IN IF ~LeaderMatches(byte)
     THEN Step(0, kept, warn, <<>>, "AssertionError")
     ELSE Step(LeadingOnes(byte) - 1, kept, warn, <<>>, "none")

\* OnContinuation with the orphan byte left in char_bytes
OnContinuationKeepsOrphan(togo, cbytes, byte) ==
  LET appended == Append(cbytes, byte)
  IN IF togo = 0
     THEN Step(0, appended, <<Warning("misplaced_continuation_byte", <<byte>>)>>, <<>>, "none")
     ELSE IF togo - 1 = 0
     THEN Step(0, <<>>,
               IF Len(appended) > 4 THEN <<Warning("too_many_bytes", appended)>> ELSE <<>>,
               <<appended>>, "none")
     ELSE Step(togo - 1, appended, <<>>, <<>>, "none")

\* OnContinuation that yields at every continuation byte of a pending sequence
OnContinuationYieldsEarly(togo, cbytes, byte) ==
  LET appended == Append(cbytes, byte)
  IN IF togo = 0
     THEN Step(0, <<>>, <<Warning("misplaced_continuation_byte", <<byte>>)>>, <<>>, "none")
     ELSE Step(togo - 1, <<>>,
               IF Len(appended) > 4 THEN <<Warning("too_many_bytes", appended)>> ELSE <<>>,
               <<appended>>, "none")

\* byte.startswith('10')
OnContinuation(togo, cbytes, byte) ==
  LET appended == Append(cbytes, byte)
  IN IF togo = 0
     THEN Step(0, <<>>, <<Warning("misplaced_continuation_byte", <<byte>>)>>, <<>>, "none")
     ELSE IF togo - 1 = 0
     THEN Step(0, <<>>,
               IF Len(appended) > 4 THEN <<Warning("too_many_bytes", appended)>> ELSE <<>>,
               <<appended>>, "none")
     ELSE Step(togo - 1, appended, <<>>, <<>>, "none")

\* The body of the loop over input_bytes
ChunkStep(togo, cbytes, byte) ==
  IF StartsWith(byte, <<0>>) THEN OnAscii(togo, cbytes, byte)
  ELSE IF StartsWith(byte, <<1, 1>>) THEN OnLeader(togo, cbytes, byte)
  ELSE IF StartsWith(byte, <<1, 0>>) THEN OnContinuation(togo, cbytes, byte)
  ELSE Step(togo, Append(cbytes, byte), <<>>, <<>>, "none")

\* After the loop: the warning for what is left in char_bytes
OnExhausted(cbytes) ==
  IF Len(cbytes) > 0 THEN <<Warning("too_few_continuation_bytes", cbytes)>> ELSE <<>>

----------------------------------------------------------------------------
(* The assembler: char_bytes_to_code_point(). *)

\* StripLeader that takes every leader for the leader of two bytes: byte[3:]
StripLeaderOfTwo(byte) == Drop(byte, 3)

\* re.sub(r'^1+0', '', byte)
StripLeader(byte) == IF LeaderMatches(byte) THEN Drop(byte, LeadingOnes(byte) + 1) ELSE byte

RECURSIVE ContinuationBits(_)
\* The else branch of the loop over the bytes after the first: the bits they add,
\* or <<-1>> when the assertion byte.startswith('10') fails
ContinuationBits(rest) ==
  IF Len(rest) = 0 THEN <<>>
  ELSE IF ~StartsWith(rest[1], <<1, 0>>) THEN <<-1>>
  ELSE LET more == ContinuationBits(Tail(rest))
       IN IF more = <<-1>> THEN more ELSE Drop(rest[1], 2) \o more

\* char_bytes_to_code_point that refuses what UTF-8 forbids: a surrogate, and a
\* value that fits in fewer bytes than the chunk has
char_bytes_to_code_point_strict(cbytes) ==
  LET Result(e, v, w) == [exc |-> e, value |-> v, warn |-> w]
      Least(n) == IF n = 2 THEN 128 ELSE IF n = 3 THEN 2048 ELSE 65536
  IN IF Len(cbytes) = 0
     THEN Result("TypeError", -1, <<>>)
     ELSE IF StartsWith(cbytes[1], <<0>>)
     THEN Result("none", IntBase2(cbytes[1]), <<>>)
     ELSE IF StartsWith(cbytes[1], <<1, 1>>)
     THEN LET more == ContinuationBits(Tail(cbytes))
              code_point_bits == StripLeader(cbytes[1]) \o more
          IN IF more = <<-1>> THEN Result("AssertionError", -1, <<>>)
             ELSE IF Len(code_point_bits) = 0 THEN Result("ValueError", -1, <<>>)
             ELSE IF \/ IntBase2(code_point_bits) \in 55296..57343
                     \/ IntBase2(code_point_bits) < Least(Len(cbytes))
             THEN Result("ValueError", -1, <<Warning("invalid_byte_sequence", cbytes)>>)
             ELSE Result("none", IntBase2(code_point_bits), <<>>)
     ELSE Result("ValueError", -1, <<Warning("invalid_byte_sequence", cbytes)>>)

\* char_bytes_to_code_point that takes the low 6 bits of a first byte that is a
\* continuation byte, and goes on
char_bytes_to_code_point_lenient(cbytes) ==
  LET Result(e, v, w) == [exc |-> e, value |-> v, warn |-> w]
  IN IF Len(cbytes) = 0
     THEN Result("TypeError", -1, <<>>)
     ELSE IF StartsWith(cbytes[1], <<0>>)
     THEN Result("none", IntBase2(cbytes[1]), <<>>)
     ELSE LET more == ContinuationBits(Tail(cbytes))
              first == IF StartsWith(cbytes[1], <<1, 1>>)
                       THEN StripLeader(cbytes[1]) ELSE Drop(cbytes[1], 2)
              code_point_bits == first \o more
          IN IF more = <<-1>> THEN Result("AssertionError", -1, <<>>)
             ELSE IF Len(code_point_bits) = 0 THEN Result("ValueError", -1, <<>>)
             ELSE Result("none", IntBase2(code_point_bits), <<>>)

\* The code point of a chunk, or the exception raised; warn is what is logged
char_bytes_to_code_point(cbytes) ==
  LET Result(e, v, w) == [exc |-> e, value |-> v, warn |-> w]
  IN IF Len(cbytes) = 0
     THEN Result("TypeError", -1, <<>>)
     ELSE IF StartsWith(cbytes[1], <<0>>)
     THEN Result("none", IntBase2(cbytes[1]), <<>>)
     ELSE IF StartsWith(cbytes[1], <<1, 1>>)
     THEN LET more == ContinuationBits(Tail(cbytes))
              code_point_bits == StripLeader(cbytes[1]) \o more
          IN IF more = <<-1>> THEN Result("AssertionError", -1, <<>>)
             ELSE IF Len(code_point_bits) = 0 THEN Result("ValueError", -1, <<>>)
             ELSE Result("none", IntBase2(code_point_bits), <<>>)
     ELSE Result("ValueError", -1, <<Warning("invalid_byte_sequence", cbytes)>>)

----------------------------------------------------------------------------
(* Formatting the output: code_points_to_output(). *)

\* pad_hex with hex_len < 4 for hex_len <= 4
pad_hex_below_four(hex_input) ==
  LET hex_len   == Len(hex_input)
      pad_to    == IF hex_len < 4 THEN 4 ELSE 6
      pad_chars == pad_to - hex_len
  IN [i \in 1..pad_chars |-> 48] \o hex_input

pad_hex(hex_input) ==
  LET hex_len   == Len(hex_input)
      pad_to    == IF hex_len <= 4 THEN 4 ELSE 6
      pad_chars == pad_to - hex_len
  IN [i \in 1..pad_chars |-> 48] \o hex_input

\* chr(code_point) raises ValueError outside range(0x110000)
ChrRaises(code_point) == code_point < 0 \/ code_point > 1114111

\* IsSurrogate of an encoder that lets surrogates through
IsSurrogateNever(code_point) == code_point \in {}

\* bytes(char, 'utf8') raises UnicodeEncodeError for a surrogate
IsSurrogate(code_point) == code_point \in 55296..57343

\* utf8_bytes with two bytes up to 0x800, not 0x7FF
utf8_bytes_late_three(code_point) ==
  IF code_point <= 127 THEN <<code_point>>
  ELSE IF code_point <= 2048
  THEN <<192 + (code_point \div 64), 128 + (code_point % 64)>>
  ELSE IF code_point <= 65535
  THEN <<224 + (code_point \div 4096), 128 + ((code_point \div 64) % 64),
         128 + (code_point % 64)>>
  ELSE <<240 + (code_point \div 262144), 128 + ((code_point \div 4096) % 64),
         128 + ((code_point \div 64) % 64), 128 + (code_point % 64)>>

\* bytes(chr(code_point), 'utf8'), the interpreter's UTF-8 encoder, for a code
\* point it accepts
utf8_bytes(code_point) ==
  IF code_point <= 127 THEN <<code_point>>
  ELSE IF code_point <= 2047
  THEN <<192 + (code_point \div 64), 128 + (code_point % 64)>>
  ELSE IF code_point <= 65535
  THEN <<224 + (code_point \div 4096), 128 + ((code_point \div 64) % 64),
         128 + (code_point % 64)>>
  ELSE <<240 + (code_point \div 262144), 128 + ((code_point \div 4096) % 64),
         128 + ((code_point \div 64) % 64), 128 + (code_point % 64)>>

\* unicodedata.name(character) finds a name. The character database is the
\* interpreter's; what is modelled of it: control characters, surrogates, private
\* use characters and noncharacters have no name (nor have unassigned code points,
\* which the runs that describe characters stay clear of)
HasUnicodeName(code_point) ==
  /\ code_point \notin 0..31
  /\ code_point \notin 127..159
  /\ code_point \notin 55296..63743
  /\ code_point \notin 64976..65007
  /\ code_point % 65536 \notin {65534, 65535}
  /\ code_point < 983040

\* unicodedata.name(character), as one symbol: the letters of names are not modelled
UnicodeName(code_point) == <<-1 - code_point>>

\* '{:9s}'.format(s)
LeftJustify9(s) == s \o [i \in 1..(9 - Len(s)) |-> 32]

\* The line for one code point, or the exception raised
format_code_point_output(code_point_int) ==
  LET code_point_hex == pad_hex(Upper(Hex(code_point_int)))
      hex_col        == <<85, 43>> \o code_point_hex \o <<58>>
  IN IF ChrRaises(code_point_int) \/ ~HasUnicodeName(code_point_int)
     THEN [exc |-> "ValueError", line |-> <<>>]
     ELSE [exc |-> "none",
           line |-> LeftJustify9(hex_col) \o <<32, code_point_int, 32, 40>>
                    \o UnicodeName(code_point_int) \o <<41>>]

\* The line of output bytes for one code point (lines 112-121), the bytes it was
\* encoded to, or the exception raised
EncodeCodePoint(code_point, fmt) ==
  IF ChrRaises(code_point) THEN [exc |-> "ValueError", line |-> <<>>, bytes |-> <<>>]
  ELSE IF IsSurrogate(code_point)
  THEN [exc |-> "UnicodeEncodeError", line |-> <<>>, bytes |-> <<>>]
  ELSE LET bytes == utf8_bytes(code_point)
           strs  == IF fmt = "hex" THEN [i \in 1..Len(bytes) |-> Upper(Hex(bytes[i]))]
                    ELSE IF fmt = "int" THEN [i \in 1..Len(bytes) |-> Str(bytes[i])]
                    ELSE <<>>
       IN [exc |-> "none", line |-> Join(strs, <<32>>), bytes |-> bytes]

\* What code_points_to_output() does with one code point it pulls: the new
\* output_strs and output_str, the lines it yields, the bytes it encoded
ConsumeCodePoint(code_point, otype, fmt, ostrs, ostr) ==
  LET Out(e, s, t, l, b) ==
        [exc |-> e, output_strs |-> s, output_str |-> t, lines |-> l, encoded |-> b]
  IN IF otype = "chars"
     THEN IF fmt = "desc"
          THEN LET f == format_code_point_output(code_point)
               IN IF f.exc # "none" THEN Out(f.exc, ostrs, ostr, <<>>, <<>>)
                  ELSE Out("none", ostrs, ostr, <<f.line>>, <<>>)
          ELSE IF fmt = "str"
          THEN IF ChrRaises(code_point) THEN Out("ValueError", ostrs, ostr, <<>>, <<>>)
               ELSE Out("none", ostrs, Append(ostr, code_point), <<>>, <<>>)
          ELSE IF fmt = "hex"
          THEN Out("none", Append(ostrs, pad_hex(Upper(Hex(code_point)))), ostr, <<>>, <<>>)
          ELSE IF fmt = "int"
          THEN Out("none", Append(ostrs, Str(code_point)), ostr, <<>>, <<>>)
          ELSE Out("none", ostrs, ostr, <<>>, <<>>)
     ELSE LET enc == EncodeCodePoint(code_point, fmt)
          IN IF enc.exc # "none" THEN Out(enc.exc, ostrs, ostr, <<>>, <<>>)
             ELSE Out("none", ostrs, ostr, <<enc.line>>, <<enc.bytes>>)

\* FinalLines with the str format left to the branch of hex and int
FinalLinesJoinsOnly(otype, fmt, ostrs, ostr) ==
  IF otype = "chars" /\ fmt # "desc" THEN <<Join(ostrs, <<32>>)>>
  ELSE <<>>

\* What code_points_to_output() yields once the code points are exhausted
FinalLines(otype, fmt, ostrs, ostr) ==
  IF otype = "chars" /\ fmt = "str" THEN <<ostr>>
  ELSE IF otype = "chars" /\ fmt # "desc" THEN <<Join(ostrs, <<32>>)>>
  ELSE <<>>

----------------------------------------------------------------------------
(* The runs the model starts from. *)

Seqs(S, n) == UNION {[1..k -> S] : k \in 0..n}

\* A byte as the two-digit upper-case hex token a user types
HexToken(b) == Upper(<<HexDigitChar(b \div 16), HexDigitChar(b % 16)>>)

\* A byte as utf8.py holds it: a string of 8 bits
ByteBits(b) == pad_binary(Bin(b))

\* One byte of each kind: ASCII (41), continuation (80, BF), leaders of 2, 3 and 4
\* bytes (C2, E2, F0), five leading 1 bits (F8), no 0 bit at all (FF)
SampleBytes == {65, 128, 191, 194, 226, 240, 248, 255}

Args(it, ifmt, ot, ofmt) ==
  [input_type |-> it, input_format |-> ifmt, output_type |-> ot, output_format |-> ofmt]

RunOf(a, i, s) == [args |-> a, inputs |-> i, stdin |-> s]

\* Well-formed sequences of the sample bytes: an ASCII byte, or a byte with n
\* leading 1 bits (n from 2 to 5) followed by n-1 continuation bytes
WellFormed ==
  {<<65>>}
  \cup {<<194>> \o c : c \in [1..1 -> {128, 191}]}
  \cup {<<226>> \o c : c \in [1..2 -> {128, 191}]}
  \cup {<<240>> \o c : c \in [1..3 -> {128, 191}]}
  \cup {<<248>> \o c : c \in [1..4 -> {128, 191}]}

\* What comes before a well-formed sequence: nothing, an orphan continuation
\* byte, a leader left without its continuation bytes, a sequence of five bytes
FaultPrefixes == {<<>>, <<128>>, <<226>>, <<248, 128, 128, 128, 128>>}

\* An overlong encoding of U+0000 (C0 80), the encoding of the surrogate U+D800
\* (ED A0 80), and a leader left alone before a byte of six leading 1 bits and
\* its five continuation bytes, and "A" before a leader that interrupts another
OtherStreams ==
  {<<192, 128>>, <<237, 160, 128>>, <<226, 252, 128, 128, 128, 128, 128>>,
   <<65, 194, 194, 128>>}

\* The byte streams decoded: every stream of up to MaxLen sample bytes, and the
\* well-formed sequences, alone and after each prefix
Streams ==
  Seqs(SampleBytes, MaxLen) \cup {p \o w : p \in FaultPrefixes, w \in WellFormed}
    \cup OtherStreams

\* utf8.py -O int B1 B2 ...: a byte stream to decode, each byte one argument
DecodeRuns ==
  {RunOf(Args("bytes", "hex", "chars", "int"), [i \in 1..Len(s) |-> HexToken(s[i])], <<>>) :
     s \in Streams}

\* Every combination of the four options, on a few small inputs:
\* "41", "C3,A9", "65 66"
AllArgs ==
  {Args(it, ifmt, ot, ofmt) :
     it \in {"bytes", "chars"}, ifmt \in {"hex", "int", "str"},
     ot \in {"bytes", "chars"}, ofmt \in {"hex", "int", "str", "desc"}}

ConfigRuns ==
  {RunOf(a, <<i>>, <<>>) :
     a \in AllArgs, i \in {<<52, 49>>, <<67, 51, 44, 65, 57>>, <<54, 53, 32, 54, 54>>}}

\* The code points around the boundaries of the UTF-8 length table, of the
\* surrogate range and of the code space, and one value beyond 6 hex digits
Boundaries == {0, 128, 2048, 55296, 57344, 65536, 1114112, 16777216}

\* "A", the euro sign and an emoji: one, three and four bytes of UTF-8
Examples == {65, 8364, 128512}

CodePoints ==
  Examples \cup {cp \in UNION {(b - CpWindow)..(b + CpWindow) : b \in Boundaries} : cp >= 0}

\* utf8.py -i chars -I int CP: one code point in decimal, to encode or to format
CharsRuns ==
  {RunOf(Args("chars", "int", o[1], o[2]), <<Str(cp)>>, <<>>) :
     o \in {<<"bytes", "hex">>, <<"bytes", "int">>, <<"chars", "hex">>}, cp \in CodePoints}

\* The characters hex tokens are made of: 0 4 a x +
TokenChars == {48, 52, 97, 120, 43}

\* utf8.py -I hex -O int TOKEN, as bytes and as code points
TokenRuns ==
  {RunOf(Args(it, "hex", "chars", "int"), <<t>>, <<>>) :
     it \in {"bytes", "chars"}, t \in Seqs(TokenChars, MaxTokenLen) \ {<<>>}}

\* Code points to describe: NUL, newline, "A", DEL, e-acute, the euro sign, the
\* first surrogate, the first code point of four bytes, an emoji, the last code
\* point, and the first value beyond the code space
DescCodePoints == {0, 10, 65, 127, 233, 8364, 55296, 65536, 128512, 1114111, 1114112}

\* utf8.py -i chars -I int CP ...: one or two code points to describe (desc is the
\* default output format)
DescRuns ==
  {RunOf(Args("chars", "int", "chars", "desc"), [i \in 1..Len(s) |-> Str(s[i])], <<>>) :
     s \in Seqs(DescCodePoints, 2) \ {<<>>}}

\* The UTF-8 encodings of "H", e-acute, the euro sign and an emoji
ValidEncodings == {<<72>>, <<195, 169>>, <<226, 130, 172>>, <<240, 159, 152, 128>>}

\* The bytes of "Hello"
Hello == <<72, 101, 108, 108, 111>>

RECURSIVE Flatten(_)
Flatten(ss) == IF Len(ss) = 0 THEN <<>> ELSE ss[1] \o Flatten(Tail(ss))

\* utf8.py -O str "B1 B2 ...": valid UTF-8 as one argument of two-digit hex
\* tokens, separated by spaces, by commas, or by a comma and a space
TextRuns ==
  {RunOf(Args("bytes", "hex", "chars", "str"),
         <<Join([i \in 1..Len(s) |-> HexToken(s[i])], sep)>>, <<>>) :
     s \in {Hello} \cup {Flatten(e) : e \in Seqs(ValidEncodings, 2) \ {<<>>}},
     sep \in {<<32>>, <<44>>, <<44, 32>>}}

Runs == DecodeRuns \cup ConfigRuns \cup CharsRuns \cup TokenRuns \cup TextRuns \cup DescRuns

Init ==
  /\ \E r \in Runs : args = r.args /\ inputs = r.inputs /\ stdin = r.stdin
  /\ pc = "main"
  /\ exc = "none"
  /\ output_format = "unbound"
  /\ consumed = 0
  /\ bin_input = <<>>
  /\ input_bytes = <<>>
  /\ pos = 0
  /\ bytes_togo = 0
  /\ char_bytes = <<>>
  /\ warnings = <<>>
  /\ chunks = <<>>
  /\ code_points = <<>>
  /\ encoded = <<>>
  /\ output_strs = <<>>
  /\ output_str = <<>>
  /\ lines = <<>>
  /\ run = 1
  /\ origin = <<>>

----------------------------------------------------------------------------
(* The steps of main(). *)

\* Main with hex taken for str as it is for desc when bytes are the output
MainDefaultsStrToHex ==
  /\ pc = "main"
  /\ output_format' = IF args.output_type = "bytes" /\ args.output_format \in {"desc", "str"}
                       THEN "hex"
                       ELSE args.output_format
  /\ pc' = IF args.input_type = "bytes" THEN "read" ELSE "chars"
  /\ UNCHANGED <<args, inputs, stdin, exc, consumed, bin_input, input_bytes, pos,
                 bytes_togo, char_bytes, warnings, chunks, code_points, encoded,
                 output_strs, output_str, lines, run, origin>>

\* Lines 44-56: the format arguments. fail() logs and leaves main(): by sys.exit(1)
\* when utf8.py runs as a script, by raising Exception when it was imported.
\* input_to_code_points() and code_points_to_output() are generators: calling them
\* runs nothing until the for loop of line 56 pulls the first line.
Main ==
  /\ pc = "main"
  /\ IF args.output_type = "bytes" /\ args.output_format = "desc"
     THEN /\ output_format' = "hex"
          /\ pc' = IF args.input_type = "bytes" THEN "read" ELSE "chars"
          /\ UNCHANGED <<exc, warnings>>
     ELSE IF args.output_type = "bytes" /\ args.output_format = "str"
     THEN /\ warnings' = Append(warnings, Warning("invalid_output_format", <<>>))
          /\ \E e \in {"SystemExit", "Exception"} : exc' = e
          /\ pc' = "exit"
          /\ UNCHANGED output_format
     ELSE /\ output_format' = args.output_format
          /\ pc' = IF args.input_type = "bytes" THEN "read" ELSE "chars"
          /\ UNCHANGED <<exc, warnings>>
  /\ UNCHANGED <<args, inputs, stdin, consumed, bin_input, input_bytes, pos, bytes_togo,
                 char_bytes, chunks, code_points, encoded, output_strs, output_str,
                 lines, run, origin>>

\* Lines 62-71: in bytes mode every input item is read and turned into bits before
\* the first byte is chunked
ReadBytesInput ==
  /\ pc = "read"
  /\ LET r == ReadItems(get_input(inputs, args.input_format), args.input_format,
                        [exc |-> "none", bits |-> <<>>, read |-> 0])
     IN /\ consumed' = r.read
        /\ bin_input' = r.bits
        /\ exc' = r.exc
        /\ IF r.exc # "none"
           THEN pc' = "raised" /\ UNCHANGED input_bytes
           ELSE pc' = "chunk" /\ input_bytes' = binary_to_bytes(r.bits)
  /\ UNCHANGED <<args, inputs, stdin, output_format, pos, bytes_togo, char_bytes,
                 warnings, chunks, code_points, encoded, output_strs, output_str,
                 lines, run, origin>>

\* Lines 174-203, 72-73 and the consumer: the chunker takes one byte; a chunk it
\* yields is assembled into a code point, which code_points_to_output() formats
ChunkByte ==
  /\ pc = "chunk"
  /\ pos < Len(input_bytes)
  /\ LET st        == ChunkStep(bytes_togo, char_bytes, input_bytes[pos + 1])
         yielded   == st.exc = "none" /\ st.yield # <<>>
         chunk     == st.yield[1]
         a         == char_bytes_to_code_point(chunk)
         assembled == yielded /\ a.exc = "none"
         c         == ConsumeCodePoint(a.value, args.output_type, output_format,
                                       output_strs, output_str)
         printed   == assembled /\ c.exc = "none"
         e         == IF st.exc # "none" THEN st.exc
                      ELSE IF yielded /\ a.exc # "none" THEN a.exc
                      ELSE IF assembled THEN c.exc
                      ELSE "none"
     IN /\ pos' = pos + 1
        /\ warnings' = warnings \o st.warn \o (IF yielded THEN a.warn ELSE <<>>)
        /\ bytes_togo' = st.bytes_togo
        /\ char_bytes' = IF yielded /\ e # "none" THEN chunk ELSE st.char_bytes
        /\ chunks' = IF yielded THEN Append(chunks, chunk) ELSE chunks
        /\ code_points' = IF assembled THEN Append(code_points, a.value) ELSE code_points
        /\ output_strs' = IF printed THEN c.output_strs ELSE output_strs
        /\ output_str' = IF printed THEN c.output_str ELSE output_str
        /\ lines' = IF printed THEN lines \o c.lines ELSE lines
        /\ encoded' = IF printed THEN encoded \o c.encoded ELSE encoded
        /\ exc' = e
        /\ pc' = IF e = "none" THEN "chunk" ELSE "raised"
  /\ UNCHANGED <<args, inputs, stdin, output_format, consumed, bin_input, input_bytes,
                 run, origin>>

\* Lines 204-206: the input bytes are exhausted; then both generators finish
ChunkExhausted ==
  /\ pc = "chunk"
  /\ pos = Len(input_bytes)
  /\ warnings' = warnings \o OnExhausted(char_bytes)
  /\ lines' = lines \o FinalLines(args.output_type, output_format, output_strs, output_str)
  /\ pc' = "done"
  /\ UNCHANGED <<args, inputs, stdin, exc, output_format, consumed, bin_input,
                 input_bytes, pos, bytes_togo, char_bytes, chunks, code_points, encoded,
                 output_strs, output_str, run, origin>>

\* The code point of one input item in chars mode (lines 75-84), -1 for a ValueError
ItemCodePoint(item, input_format) ==
  IF input_format = "str" THEN item[1]
  ELSE IF input_format = "hex" THEN IntBase16(clean_up_hex(item))
  ELSE IntBase10(item)

\* Lines 74-84 and the consumer: one input item becomes a code point, which
\* code_points_to_output() formats
CharsItem ==
  /\ pc = "chars"
  /\ consumed < Len(get_input(inputs, args.input_format))
  /\ LET item       == get_input(inputs, args.input_format)[consumed + 1]
         code_point == ItemCodePoint(item, args.input_format)
         parsed     == code_point >= 0
         c          == ConsumeCodePoint(code_point, args.output_type, output_format,
                                        output_strs, output_str)
         printed    == parsed /\ c.exc = "none"
         e          == IF ~parsed THEN "ValueError" ELSE c.exc
     IN /\ consumed' = consumed + 1
        /\ code_points' = IF parsed THEN Append(code_points, code_point) ELSE code_points
        /\ output_strs' = IF printed THEN c.output_strs ELSE output_strs
        /\ output_str' = IF printed THEN c.output_str ELSE output_str
        /\ lines' = IF printed THEN lines \o c.lines ELSE lines
        /\ encoded' = IF printed THEN encoded \o c.encoded ELSE encoded
        /\ exc' = e
        /\ pc' = IF e = "none" THEN "chars" ELSE "raised"
  /\ UNCHANGED <<args, inputs, stdin, output_format, bin_input, input_bytes, pos,
                 bytes_togo, char_bytes, warnings, chunks, run, origin>>

\* The input items are exhausted in chars mode; then both generators finish
CharsExhausted ==
  /\ pc = "chars"
  /\ consumed = Len(get_input(inputs, args.input_format))
  /\ lines' = lines \o FinalLines(args.output_type, output_format, output_strs, output_str)
  /\ pc' = "done"
  /\ UNCHANGED <<args, inputs, stdin, exc, output_format, consumed, bin_input,
                 input_bytes, pos, bytes_togo, char_bytes, warnings, chunks, code_points,
                 encoded, output_strs, output_str, run, origin>>

\* The bytes a finished run printed are given, on standard input, to a second run
\* that decodes them: utf8.py -i chars -o bytes ... | utf8.py -I <format> -O int.
\* print() ends each line with a newline.
Pipe ==
  /\ pc = "done"
  /\ run = 1
  /\ args.output_type = "bytes"
  /\ args' = Args("bytes", output_format, "chars", "int")
  /\ inputs' = <<>>
  /\ stdin' = [i \in 1..Len(lines) |-> Append(lines[i], 10)]
  /\ origin' = code_points
  /\ run' = 2
  /\ pc' = "main"
  /\ output_format' = "unbound"
  /\ consumed' = 0
  /\ bin_input' = <<>>
  /\ input_bytes' = <<>>
  /\ pos' = 0
  /\ bytes_togo' = 0
  /\ char_bytes' = <<>>
  /\ warnings' = <<>>
  /\ chunks' = <<>>
  /\ code_points' = <<>>
  /\ encoded' = <<>>
  /\ output_strs' = <<>>
  /\ output_str' = <<>>
  /\ lines' = <<>>
  /\ UNCHANGED exc

Next ==
  \/ Main
  \/ ReadBytesInput
  \/ ChunkByte
  \/ ChunkExhausted
  \/ CharsItem
  \/ CharsExhausted
  \/ Pipe

Spec == Init /\ [][Next]_vars

----------------------------------------------------------------------------
(* The vocabulary of the properties. *)

\* The classes of a byte, read off its bits
IsAscii(byte) == Len(byte) = 8 /\ byte[1] = 0
IsContinuation(byte) == Len(byte) = 8 /\ byte[1] = 1 /\ byte[2] = 0
IsLeader(byte, n) == Len(byte) = 8 /\ LeadingOnes(byte) = n /\ n \in 2..4
IsInvalid(byte) == Len(byte) = 8 /\ LeadingOnes(byte) >= 5

\* The value of a string of 8 bits
ByteValue(byte) ==
  128 * byte[1] + 64 * byte[2] + 32 * byte[3] + 16 * byte[4]
  + 8 * byte[5] + 4 * byte[6] + 2 * byte[7] + byte[8]

\* An ASCII byte, or a Leader(n) followed by exactly n-1 continuation bytes
IsWellFormed(s) ==
  /\ Len(s) >= 1
  /\ \/ Len(s) = 1 /\ IsAscii(s[1])
     \/ /\ IsLeader(s[1], Len(s))
        /\ \A j \in 2..Len(s) : IsContinuation(s[j])

RECURSIVE Power(_, _)
Power(b, e) == IF e = 0 THEN 1 ELSE b * Power(b, e - 1)

\* The integer a well-formed sequence spells: the bits of the first byte after
\* its run of 1s and the 0 that ends it, then the low 6 bits of each following byte
SpelledCodePoint(s) ==
  LET n == Len(s)
      Term(j) == IF j = 1
                 THEN (ByteValue(s[1]) % Power(2, IF n = 1 THEN 7 ELSE 7 - n)) * Power(64, n - 1)
                 ELSE (ByteValue(s[j]) % 64) * Power(64, n - j)
      Sum[j \in 0..n] == IF j = 0 THEN 0 ELSE Sum[j - 1] + Term(j)
  IN Sum[n]

\* The input bytes are whole bytes: strings of 8 bits each
WholeBytes == \A i \in 1..Len(input_bytes) : Len(input_bytes[i]) = 8

\* The chunker is about to take a byte
Chunking == pc = "chunk" /\ pos < Len(input_bytes)

\* The chunker took a byte in this step
TookByte == Chunking /\ pos' = pos + 1

NextByte == input_bytes[pos + 1]

\* The decode of the bytes stopped with an exception of the chunker or the
\* assembler (what the formatter raises leaves as many code points as chunks)
DecodeAborted ==
  /\ pc = "raised"
  /\ pos > 0
  /\ exc \in {"TypeError", "AssertionError"} \/ Len(chunks) > Len(code_points)

----------------------------------------------------------------------------
(* C1: an ASCII byte that interrupts a pending sequence. *)

\* C1: whenever the chunker takes an ASCII byte while a sequence is pending (a
\* leader, with fewer continuation bytes than it declares), it reports exactly one
\* too_few_continuation_bytes fault carrying the pending bytes, emits a chunk made
\* of the ASCII byte alone, and decoding goes on.
C1_AsciiInterruptsPending ==
  [][(TookByte /\ WholeBytes /\ IsAscii(NextByte) /\ bytes_togo > 0)
       => /\ warnings' = Append(warnings, Warning("too_few_continuation_bytes", char_bytes))
          /\ chunks' = Append(chunks, <<NextByte>>)
          /\ pc' = "chunk"]_vars

----------------------------------------------------------------------------
(* C2: decode faults are not fatal. *)

\* C2: whatever faults the bytes before it cause, decoding never aborts, and a
\* well-formed sequence that ends the stream is the last chunk emitted and is
\* turned into its code point: the run ends normally.
C2_FaultsNotFatal ==
  (args.input_type = "bytes" /\ WholeBytes)
    => /\ ~DecodeAborted
       /\ pc = "done" =>
            \A k \in 1..Len(input_bytes) :
              LET tail == SubSeq(input_bytes, k, Len(input_bytes))
              IN IsWellFormed(tail)
                   => /\ Len(chunks) >= 1
                      /\ Len(code_points) = Len(chunks)
                      /\ chunks[Len(chunks)] = tail
                      /\ code_points[Len(chunks)] = SpelledCodePoint(tail)

----------------------------------------------------------------------------
(* C3: the round trip of a code point. *)

\* C3: the bytes the encoder printed (in hex) for code points, decoded by a second
\* run, give one chunk per code point and the same code points back, with no fault
\* and no exception. The first run finished, so every code point was one the
\* encoder accepts: in [0, 0x10FFFF] and no surrogate.
C3_RoundTrip ==
  (run = 2 /\ args.input_format = "hex")
    => /\ pc # "raised"
       /\ warnings = <<>>
       /\ pc = "done" => (code_points = origin /\ Len(chunks) = Len(origin))

\* The euro sign went through both runs: E2 82 AC is one chunk, decoded to 0x20AC
C3_Witness ==
  /\ run = 2
  /\ pc = "done"
  /\ args.input_format = "hex"
  /\ origin = <<8364>>
  /\ chunks = <<<<ByteBits(226), ByteBits(130), ByteBits(172)>>>>
  /\ code_points = <<8364>>

----------------------------------------------------------------------------
(* C4: an orphan continuation byte. *)

\* C4: whenever the chunker takes a continuation byte while bytes_togo is 0, it
\* reports exactly one misplaced_continuation_byte fault for that byte alone, emits
\* no chunk and no code point for it, and leaves the pending buffer empty; decoding
\* [0x80] alone ends with exactly that one fault and no chunk.
C4_OrphanContinuation ==
  /\ [][(TookByte /\ StartsWith(NextByte, <<1, 0>>) /\ bytes_togo = 0)
          => /\ warnings' = Append(warnings, Warning("misplaced_continuation_byte", <<NextByte>>))
             /\ chunks' = chunks
             /\ code_points' = code_points
             /\ lines' = lines
             /\ char_bytes' = <<>>
             /\ bytes_togo' = 0
             /\ pc' = "chunk"]_vars
  /\ [](input_bytes = <<ByteBits(128)>> /\ pc = "done"
          => /\ warnings = <<Warning("misplaced_continuation_byte", <<ByteBits(128)>>)>>
             /\ chunks = <<>>)

\* [0x80] was decoded to the end
C4_Witness ==
  /\ input_bytes = <<ByteBits(128)>>
  /\ pc = "done"
  /\ warnings = <<Warning("misplaced_continuation_byte", <<ByteBits(128)>>)>>
  /\ chunks = <<>>

----------------------------------------------------------------------------
(* C5: the length table of the encoder. *)

\* The length the table gives a code point
TableLength(cp) ==
  IF cp <= 127 THEN 1 ELSE IF cp <= 2047 THEN 2 ELSE IF cp <= 65535 THEN 3 ELSE 4

\* C5: every code point the encoder accepted was encoded to the number of bytes
\* the table gives; the first byte is ASCII (length 1) or a leader whose run of
\* leading 1 bits is the length, and every other byte has prefix 10.
C5_LengthTable ==
  \A i \in 1..Len(encoded) :
    LET cp == code_points[i]
        b  == encoded[i]
    IN /\ cp \in 0..1114111
       /\ Len(b) = TableLength(cp)
       /\ IF Len(b) = 1
          THEN IsAscii(ByteBits(b[1]))
          ELSE /\ IsLeader(ByteBits(b[1]), Len(b))
               /\ \A j \in 2..Len(b) : IsContinuation(ByteBits(b[j]))

\* The last code point of two bytes, 0x7FF, and the first of three, 0x800, were encoded
C5_Witness ==
  /\ args.output_type = "bytes"
  /\ pc = "done"
  /\ \/ code_points = <<2047>> /\ encoded = <<<<223, 191>>>>
     \/ code_points = <<2048>> /\ encoded = <<<<224, 160, 128>>>>

----------------------------------------------------------------------------
(* C6: the classification of bytes. *)

\* C6: from an empty pending buffer the chunker treats every byte by its class:
\* an Ascii byte is emitted as a chunk, a Continuation byte is reported as
\* misplaced, a Leader(n) opens a sequence awaiting n-1 bytes, and a byte with 5 or
\* more leading 1 bits is Invalid: it opens no sequence, and no byte stops the run.
C6_Classification ==
  [][(TookByte /\ WholeBytes /\ bytes_togo = 0 /\ char_bytes = <<>>)
       => /\ pc' = "chunk"
          /\ IsAscii(NextByte) => chunks' = Append(chunks, <<NextByte>>) /\ bytes_togo' = 0
          /\ IsContinuation(NextByte) => Len(warnings') = Len(warnings) + 1 /\ bytes_togo' = 0
          /\ \A n \in 2..4 :
               IsLeader(NextByte, n) => bytes_togo' = n - 1 /\ char_bytes' = <<NextByte>>
          /\ IsInvalid(NextByte) => bytes_togo' = 0 /\ chunks' = chunks]_vars

----------------------------------------------------------------------------
(* C7: the result of the assembler. *)

\* C7: the code point assembled from a well-formed chunk is the 7 low bits of a
\* one-byte chunk, and for a chunk of a Leader(n) and n-1 continuation bytes the
\* integer spelled by the leader's bits after its run of 1s and the following 0,
\* then the low 6 bits of each continuation byte.
C7_AssembledValue ==
  \A i \in 1..Len(chunks) :
    IsWellFormed(chunks[i])
      => /\ i <= Len(code_points)
         /\ code_points[i] = SpelledCodePoint(chunks[i])

\* A chunk of four bytes, F0 BF 80 BF, was assembled to 0x3F03F
C7_Witness ==
  \E i \in 1..Len(chunks) :
    /\ chunks[i] = <<ByteBits(240), ByteBits(191), ByteBits(128), ByteBits(191)>>
    /\ i <= Len(code_points)
    /\ code_points[i] = 258111

----------------------------------------------------------------------------
(* C8: str output of bytes is refused before anything is processed. *)

\* C8: when output type bytes is asked for in format str, the error is reported
\* and main() is left before any input item is read or parsed, any byte chunked
\* or any line printed.
C8_StrBytesRefused ==
  (run = 1 /\ args.output_type = "bytes" /\ args.output_format = "str")
    => /\ pc \in {"main", "exit"}
       /\ consumed = 0
       /\ bin_input = <<>>
       /\ input_bytes = <<>>
       /\ pos = 0
       /\ chunks = <<>>
       /\ code_points = <<>>
       /\ lines = <<>>
       /\ pc = "exit" => warnings = <<Warning("invalid_output_format", <<>>)>>

\* The run was refused, with input on the command line
C8_Witness ==
  /\ pc = "exit"
  /\ args.output_type = "bytes"
  /\ args.output_format = "str"
  /\ inputs # <<>>
  /\ warnings = <<Warning("invalid_output_format", <<>>)>>

----------------------------------------------------------------------------
(* C9: the hex format of a code point. *)

\* The value of text over [0-9A-F], digit by digit
HexValue(s) ==
  LET Sum[j \in 0..Len(s)] ==
        IF j = 0 THEN 0 ELSE 16 * Sum[j - 1] + HexDigitValue(s[j])
  IN Sum[Len(s)]

\* C9: a code point is formatted as its value in upper-case hexadecimal digits
\* (never truncated), zero-padded to exactly 4 digits up to 0xFFFF and to exactly
\* 6 digits from 0x10000 to 0xFFFFFF; 0x41 gives "0041" and 0x10000 gives "010000".
C9_HexFormat ==
  (args.output_type = "chars" /\ output_format = "hex")
    => \A i \in 1..Len(output_strs) :
         LET cp == code_points[i]
             s  == output_strs[i]
         IN /\ \A j \in 1..Len(s) : s[j] \in HexChars
            /\ HexValue(s) = cp
            /\ cp <= 65535 => Len(s) = 4
            /\ (cp > 65535 /\ cp <= 16777215) => Len(s) = 6
            /\ cp = 65 => s = <<48, 48, 52, 49>>
            /\ cp = 65536 => s = <<48, 49, 48, 48, 48, 48>>

\* 0x10000 was formatted as "010000", or 0xFFFF as "FFFF"
C9_Witness ==
  /\ args.output_type = "chars"
  /\ output_format = "hex"
  /\ \/ code_points = <<65536>> /\ lines = <<<<48, 49, 48, 48, 48, 48>>>>
     \/ code_points = <<65535>> /\ lines = <<<<70, 70, 70, 70>>>>

----------------------------------------------------------------------------
(* C10: hex tokens with other characters in them. *)

\* The hex digits of a token, in their order, in upper case
DigitsOf(token) == Upper(SelectSeq(token, LAMBDA c : c \in HexChars \cup (97..102)))

\* The value of a sequence of whole bytes, the first the most significant
BytesValue(bs) ==
  LET Sum[j \in 0..Len(bs)] == IF j = 0 THEN 0 ELSE 256 * Sum[j - 1] + ByteValue(bs[j])
  IN Sum[Len(bs)]

\* An input item was rejected: parsing it raised
ItemRejected ==
  \/ args.input_type = "chars" /\ Len(code_points) < consumed
  \/ args.input_type = "bytes" /\ pc = "raised" /\ pos = 0 /\ consumed > 0

\* C10: no hex token is rejected for the characters outside [0-9A-Fa-f] in it: they
\* are removed, and the token parses to the value of the digits that remain.
C10_HexTolerant ==
  (run = 1 /\ args.input_format = "hex")
    => /\ ~ItemRejected
       /\ args.input_type = "chars" =>
            \A i \in 1..Len(code_points) :
              LET digits == DigitsOf(get_input(inputs, "hex")[i])
              IN Len(digits) > 0 => code_points[i] = HexValue(digits)
       /\ (args.input_type = "bytes" /\ consumed = 1 /\ ~ItemRejected) =>
            LET digits == DigitsOf(get_input(inputs, "hex")[1])
            IN BytesValue(binary_to_bytes(bin_input)) = HexValue(digits)

----------------------------------------------------------------------------
(* C11: decoding well-formed input to text. *)

\* A well-formed sequence that is valid UTF-8: of the length the table gives its
\* code point, which is no surrogate and at most 0x10FFFF
IsValidSequence(s) ==
  /\ IsWellFormed(s)
  /\ SpelledCodePoint(s) <= 1114111
  /\ SpelledCodePoint(s) \notin 55296..57343
  /\ TableLength(SpelledCodePoint(s)) = Len(s)

\* The length of the sequence a first byte announces
AnnouncedLength(byte) == IF byte[1] = 0 THEN 1 ELSE LeadingOnes(byte)

RECURSIVE ValidCodePoints(_)
\* The code points of a stream of whole bytes that is valid UTF-8, in order;
\* <<-1>> for a stream that is not
ValidCodePoints(bs) ==
  IF Len(bs) = 0 THEN <<>>
  ELSE LET n == AnnouncedLength(bs[1])
       IN IF n < 1 \/ n > Len(bs) \/ ~IsValidSequence(SubSeq(bs, 1, n)) THEN <<-1>>
          ELSE LET rest == ValidCodePoints(Drop(bs, n))
               IN IF rest = <<-1>> THEN rest
                  ELSE <<SpelledCodePoint(SubSeq(bs, 1, n))>> \o rest

\* Every input item is a token of two hex digits
TwoDigitTokens ==
  \A i \in 1..Len(get_input(inputs, "hex")) :
    LET tok == get_input(inputs, "hex")[i]
    IN clean_up_hex(tok) = Upper(SelectSeq(tok, LAMBDA c : c \notin Whitespace)) /\ Len(clean_up_hex(tok)) = 2

\* The bytes the tokens of the input stand for, token by token
TokenBytes ==
  [i \in 1..Len(get_input(inputs, "hex")) |->
     ByteBits(HexValue(clean_up_hex(get_input(inputs, "hex")[i])))]

\* C11: with input type bytes in hex and output type chars in format str, two-digit
\* hex tokens separated by spaces or commas that form valid UTF-8 give exactly one
\* output line, the decoded characters in input order, with no fault and no
\* exception; "48 65 6C 6C 6F" gives "Hello".
C11_DecodeToText ==
  (/\ run = 1
   /\ args = Args("bytes", "hex", "chars", "str")
   /\ inputs # <<>>
   /\ TwoDigitTokens
   /\ ValidCodePoints(TokenBytes) # <<-1>>)
    => /\ pc # "raised"
       /\ warnings = <<>>
       /\ pc \in {"chunk", "done"} => input_bytes = TokenBytes
       /\ pc = "done" => lines = <<ValidCodePoints(TokenBytes)>>
       /\ pc # "done" => lines = <<>>

\* "48 65 6C 6C 6F" was decoded to the one line "Hello"
C11_Witness ==
  /\ args = Args("bytes", "hex", "chars", "str")
  /\ inputs = <<<<52, 56, 32, 54, 53, 32, 54, 67, 32, 54, 67, 32, 54, 70>>>>
  /\ pc = "done"
  /\ lines = <<Hello>>

----------------------------------------------------------------------------
(* C12: surrogates and code points out of range, given to the encoder. *)

\* A code point in [0xD800, 0xDFFF] or above 0x10FFFF
NotEncodable(cp) == cp \in 55296..57343 \/ cp > 1114111

\* C12, as claimed: for a code point in [0xD800, 0xDFFF] or above 0x10FFFF, encoding
\* to bytes raises no error and still produces a byte sequence.
C12_EncoderAcceptsAll ==
  (run = 1 /\ args.output_type = "bytes")
    => \A i \in 1..Len(code_points) :
         NotEncodable(code_points[i])
           => /\ exc = "none"
              /\ i <= Len(encoded)
              /\ Len(encoded[i]) >= 1

\* C12, amended: encoding a code point in [0xD800, 0xDFFF] raises
\* UnicodeEncodeError and encoding one above 0x10FFFF raises ValueError; no bytes
\* are produced and no line is printed for it, and the run stops there.
C12_EncoderRejects ==
  (run = 1 /\ args.output_type = "bytes" /\ pc # "exit")
    => \A i \in 1..Len(code_points) :
         NotEncodable(code_points[i])
           => /\ pc = "raised"
              /\ exc = IF code_points[i] > 1114111 THEN "ValueError" ELSE "UnicodeEncodeError"
              /\ i = Len(code_points)
              /\ Len(encoded) = i - 1
              /\ Len(lines) = i - 1

\* The first surrogate, 0xD800, was given to the encoder, which raised
C12_Witness ==
  /\ args.output_type = "bytes"
  /\ code_points = <<55296>>
  /\ pc = "raised"
  /\ exc = "UnicodeEncodeError"
  /\ encoded = <<>>
  /\ lines = <<>>

----------------------------------------------------------------------------
(* C13: the desc format. *)

\* "U+XXXX:" for a code point, in the 9 columns it occupies
DescColumn(cp) ==
  LET col == <<85, 43>> \o pad_hex(Upper(Hex(cp))) \o <<58>>
  IN col \o [k \in 1..(9 - Len(col)) |-> 32]

\* A line of the desc format for a code point: the 9 columns, a space, the
\* character, a space, and a name in parentheses
IsDescLine(line, cp) ==
  /\ Len(line) >= 15
  /\ SubSeq(line, 1, 9) = DescColumn(cp)
  /\ SubSeq(line, 10, 13) = <<32, cp, 32, 40>>
  /\ line[Len(line)] = 41

\* C13: the desc format prints, for every code point given to it, one line of
\* that shape, also for a code point that has no Unicode name, such as U+0000.
C13_DescLines ==
  (run = 1 /\ args.output_type = "chars" /\ output_format = "desc")
    => \A i \in 1..Len(code_points) :
         code_points[i] <= 1114111
           => /\ i <= Len(lines)
              /\ IsDescLine(lines[i], code_points[i])

----------------------------------------------------------------------------
(* C14: a leader that interrupts a pending sequence. *)

\* A leader followed by fewer continuation bytes than it declares
IsIncomplete(s) ==
  /\ Len(s) >= 1
  /\ \E m \in 2..4 : IsLeader(s[1], m) /\ Len(s) < m
  /\ \A j \in 2..Len(s) : IsContinuation(s[j])

\* C14: whenever the chunker takes a Leader(n) byte while the pending buffer is
\* non-empty, it reports exactly one too_few_continuation_bytes fault carrying the
\* old pending bytes only, and the pending buffer becomes this leader alone with
\* bytes_togo = n-1; and when a stream begins with an incomplete sequence and goes
\* on with a leader and its n-1 continuation bytes, that leader and those
\* continuation bytes are emitted as a chunk.
C14_LeaderInterruptsPending ==
  /\ [][(TookByte /\ WholeBytes /\ char_bytes # <<>>
           /\ \E n \in 2..4 : IsLeader(NextByte, n))
          => /\ warnings' = Append(warnings, Warning("too_few_continuation_bytes", char_bytes))
             /\ char_bytes' = <<NextByte>>
             /\ bytes_togo' = LeadingOnes(NextByte) - 1
             /\ pc' = "chunk"]_vars
  /\ [](\A k \in 1..Len(input_bytes) : \A l \in (k + 1)..Len(input_bytes) :
          (/\ WholeBytes
           /\ IsIncomplete(SubSeq(input_bytes, 1, k))
           /\ IsWellFormed(SubSeq(input_bytes, k + 1, l))
           /\ l > k + 1
           /\ pc \in {"chunk", "done", "raised"}
           /\ pos >= l)
            => \E c \in 1..Len(chunks) : chunks[c] = SubSeq(input_bytes, k + 1, l))

----------------------------------------------------------------------------
(* C15: what the chunker hands the assembler. *)

\* C15: every chunk the chunker emitted is non-empty and is an ASCII byte alone,
\* or starts with a leader byte (a byte that starts with 11) and goes on with
\* continuation bytes only; the assembler never raises ValueError on a chunk.
C15_ChunksStartRight ==
  (args.input_type = "bytes" /\ WholeBytes)
    => /\ \A c \in 1..Len(chunks) :
            /\ Len(chunks[c]) >= 1
            /\ \/ Len(chunks[c]) = 1 /\ IsAscii(chunks[c][1])
               \/ /\ StartsWith(chunks[c][1], <<1, 1>>)
                  /\ \A j \in 2..Len(chunks[c]) : IsContinuation(chunks[c][j])
       /\ ~(pc = "raised" /\ exc = "ValueError" /\ Len(chunks) > Len(code_points))

----------------------------------------------------------------------------
(* C16: the end of the byte stream. *)

\* The stream has no byte of 5 or more leading 1 bits
NoInvalidByte == \A i \in 1..Len(input_bytes) : ~IsInvalid(input_bytes[i])

\* The bytes pending at the end of the stream: the leader that still awaits
\* continuation bytes and the continuation bytes after it; none, <<>>
PendingAtEnd ==
  LET n == Len(input_bytes)
      starts == {k \in 1..n : IsIncomplete(SubSeq(input_bytes, k, n))}
  IN IF starts = {} THEN <<>> ELSE SubSeq(input_bytes, CHOOSE k \in starts : TRUE, n)

\* C16: when the byte stream is exhausted while a leader still awaits
\* continuation bytes, the chunker reports exactly one too_few_continuation_bytes
\* fault carrying the pending bytes and emits no chunk; when nothing is pending,
\* it reports no fault.
C16_Exhaustion ==
  [][(pc = "chunk" /\ pc' = "done" /\ WholeBytes /\ NoInvalidByte)
       => /\ chunks' = chunks
          /\ warnings' = IF PendingAtEnd # <<>>
                         THEN Append(warnings, Warning("too_few_continuation_bytes", PendingAtEnd))
                         ELSE warnings]_vars

----------------------------------------------------------------------------
(* C17: the completion of a chunk. *)

\* The pending buffer holds a leader and continuation bytes, and bytes_togo counts
\* the continuation bytes the leader still awaits
PendingSequence ==
  /\ IsIncomplete(char_bytes)
  /\ bytes_togo = LeadingOnes(char_bytes[1]) - Len(char_bytes)

\* C17: from an empty pending buffer, a Leader(n) byte and n-1 continuation bytes
\* give exactly one chunk, emitted when the last of these continuation bytes is
\* taken and not earlier; the chunk is those n bytes in order, no fault is
\* reported, and afterwards the pending buffer is empty and bytes_togo is 0. Said
\* of each step: the leader starts the pending sequence, a continuation byte that
\* is not the last one extends it, the last one emits it; and of a stream that
\* begins with such a sequence.
C17_ChunkCompletion ==
  /\ [][(TookByte /\ WholeBytes /\ char_bytes = <<>> /\ bytes_togo = 0
           /\ \E n \in 2..4 : IsLeader(NextByte, n))
          => /\ char_bytes' = <<NextByte>>
             /\ bytes_togo' = LeadingOnes(NextByte) - 1
             /\ chunks' = chunks
             /\ warnings' = warnings
             /\ pc' = "chunk"]_vars
  /\ [][(TookByte /\ WholeBytes /\ PendingSequence /\ IsContinuation(NextByte))
          => /\ warnings' = warnings
             /\ IF bytes_togo = 1
                THEN /\ chunks' = Append(chunks, Append(char_bytes, NextByte))
                     /\ bytes_togo' = 0
                     /\ pc' = "chunk" => char_bytes' = <<>>
                ELSE /\ chunks' = chunks
                     /\ char_bytes' = Append(char_bytes, NextByte)
                     /\ bytes_togo' = bytes_togo - 1
                     /\ pc' = "chunk"]_vars
  /\ [](\A n \in 2..4 :
          (/\ WholeBytes
           /\ n <= Len(input_bytes)
           /\ IsWellFormed(SubSeq(input_bytes, 1, n))
           /\ pc \in {"chunk", "done", "raised"}
           /\ pos <= n)
            => /\ warnings = <<>>
               /\ chunks = IF pos = n THEN <<SubSeq(input_bytes, 1, n)>> ELSE <<>>
               /\ (pos = n /\ pc = "chunk") => (char_bytes = <<>> /\ bytes_togo = 0))

\* F0 80 80 80 was taken: one chunk of the four bytes, nothing pending, no fault
C17_Witness ==
  /\ pc = "chunk"
  /\ pos = 4
  /\ chunks = <<<<ByteBits(240), ByteBits(128), ByteBits(128), ByteBits(128)>>>>
  /\ warnings = <<>>
  /\ char_bytes = <<>>
  /\ bytes_togo = 0

----------------------------------------------------------------------------
(* C18: chunks of more than 4 bytes. *)

\* C18: every chunk of more than 4 bytes that was emitted was reported with a
\* too_many_bytes warning carrying it, and its first byte has 5 or more leading
\* 1 bits; and every too_many_bytes warning is for an emitted chunk of more than
\* 4 bytes.
C18_TooManyBytes ==
  (args.input_type = "bytes" /\ WholeBytes)
    => /\ \A c \in 1..Len(chunks) :
            Len(chunks[c]) > 4
              => /\ \E w \in 1..Len(warnings) : warnings[w] = Warning("too_many_bytes", chunks[c])
                 /\ IsInvalid(chunks[c][1])
       /\ \A w \in 1..Len(warnings) :
            warnings[w].kind = "too_many_bytes"
              => /\ Len(warnings[w].bytes) > 4
                 /\ \E c \in 1..Len(chunks) : chunks[c] = warnings[w].bytes

----------------------------------------------------------------------------
(* C19: the assembler and a chunk that starts with a continuation byte. *)

\* C19: a chunk that starts with a continuation byte is the last one the
\* assembler was given: it logged the invalid byte sequence and raised
\* ValueError, and there is no code point for the chunk.
C19_AssemblerRejects ==
  (args.input_type = "bytes" /\ WholeBytes)
    => \A c \in 1..Len(chunks) :
         IsContinuation(chunks[c][1])
           => /\ c = Len(chunks)
              /\ pc = "raised"
              /\ exc = "ValueError"
              /\ Len(code_points) = c - 1
              /\ Len(warnings) >= 1
              /\ warnings[Len(warnings)] = Warning("invalid_byte_sequence", chunks[c])

\* C2 C2 80 was decoded: the chunk 80 reached the assembler, which raised
C19_Witness ==
  /\ input_bytes = <<ByteBits(194), ByteBits(194), ByteBits(128)>>
  /\ chunks = <<<<ByteBits(128)>>>>
  /\ pc = "raised"
  /\ exc = "ValueError"
  /\ code_points = <<>>

----------------------------------------------------------------------------
(* C20: the decoder is permissive. *)

\* C20: a stream that is one well-formed sequence (a leader of n from 2 to 4 and
\* its n-1 continuation bytes) is decoded with no fault and no exception of the
\* decoder to one chunk and to the integer its bits spell, whatever that integer
\* is: C0 80 is decoded to 0 and ED A0 80 to 0xD800.
C20_Permissive ==
  (/\ args.input_type = "bytes"
   /\ WholeBytes
   /\ IsWellFormed(input_bytes)
   /\ Len(input_bytes) >= 2
   /\ pc \in {"chunk", "done", "raised"}
   /\ pos = Len(input_bytes))
    => /\ ~DecodeAborted
       /\ warnings = <<>>
       /\ chunks = <<input_bytes>>
       /\ code_points = <<SpelledCodePoint(input_bytes)>>
       /\ input_bytes = <<ByteBits(192), ByteBits(128)>> => code_points = <<0>>
       /\ input_bytes = <<ByteBits(237), ByteBits(160), ByteBits(128)>> => code_points = <<55296>>

\* ED A0 80 was decoded to the end: the surrogate U+D800, printed as an integer
C20_Witness ==
  /\ input_bytes = <<ByteBits(237), ByteBits(160), ByteBits(128)>>
  /\ pc = "done"
  /\ warnings = <<>>
  /\ code_points = <<55296>>
  /\ lines = <<Str(55296)>>

----------------------------------------------------------------------------
(* C21: the state of the chunker between bytes. *)

\* C21: before the chunker takes a byte, and when the stream is exhausted, the
\* pending buffer is non-empty exactly when bytes_togo is greater than 0, and a
\* non-empty pending buffer starts with the leader that set the counter (the
\* counter is what that leader declares less the bytes pending); before the first
\* byte the buffer is empty and the counter 0.
C21_ChunkerState ==
  (pc = "chunk" /\ WholeBytes)
    => /\ (char_bytes # <<>>) <=> (bytes_togo > 0)
       /\ char_bytes # <<>>
            => /\ StartsWith(char_bytes[1], <<1, 1>>)
               /\ bytes_togo = LeadingOnes(char_bytes[1]) - Len(char_bytes)
       /\ pos = 0 => (char_bytes = <<>> /\ bytes_togo = 0)

----------------------------------------------------------------------------
(* C22: the conservation of bytes. *)

\* How many times v occurs in s
Count(v, s) == Cardinality({i \in 1..Len(s) : s[i] = v})

RECURSIVE IsSubsequence(_, _)
\* a is b with some elements left out, the others in their order
IsSubsequence(a, b) ==
  IF Len(a) = 0 THEN TRUE
  ELSE IF Len(b) = 0 THEN FALSE
  ELSE IF a[1] = b[1] THEN IsSubsequence(Tail(a), Tail(b))
  ELSE IsSubsequence(a, Tail(b))

\* The bytes of the chunks emitted, and the bytes the reported faults carry
EmittedBytes == Flatten(chunks)
FaultedBytes == Flatten([w \in 1..Len(warnings) |-> warnings[w].bytes])

\* C22: when the chunker ran to the end of the stream, every input byte is
\* accounted for exactly once, in an emitted chunk or in a reported fault (each
\* byte value occurs in the chunks and the faults together as often as in the
\* input), and the chunks, one after the other, are a subsequence of the input.
C22_ByteConservation ==
  (pc = "done" /\ args.input_type = "bytes" /\ WholeBytes)
    => /\ \A i \in 1..Len(input_bytes) :
            Count(input_bytes[i], EmittedBytes) + Count(input_bytes[i], FaultedBytes)
              = Count(input_bytes[i], input_bytes)
       /\ Len(EmittedBytes) + Len(FaultedBytes) = Len(input_bytes)
       /\ IsSubsequence(EmittedBytes, input_bytes)

----------------------------------------------------------------------------
(* C23: whole bytes in bytes mode. *)

\* The input items of the run, and whether each is a decimal number from 0 to 255
InputItems == get_input(inputs, args.input_format)
ByteItems == \A i \in 1..Len(InputItems) : IntBase10(InputItems[i]) \in 0..255

\* C23: in bytes mode, with the hex and with the int input format, once the input
\* is read the bit string given to binary_to_bytes has a length that is a
\* multiple of 8 and every byte given to the chunker has exactly 8 bits; with the
\* int format, items from 0 to 255 give one byte each, of the item's value.
C23_WholeByteInput ==
  (/\ args.input_type = "bytes"
   /\ args.input_format \in {"hex", "int"}
   /\ pc \in {"chunk", "done"})
    => /\ Len(bin_input) % 8 = 0
       /\ WholeBytes
       /\ (args.input_format = "int" /\ ByteItems)
            => input_bytes = [i \in 1..Len(InputItems) |-> ByteBits(IntBase10(InputItems[i]))]

====
